---- MODULE Spec2Model ----
(***************************************************************************)
(* Model of PandasSpread (package spreadpandas): the column-letter codec   *)
(* and rectangle enumerator of operations.py, the region descriptor of     *)
(* spreadsheet_element.py and the Spreadsheet class of spreadsheet.py.     *)
(*                                                                         *)
(* A Python str is a sequence of one-character strings, a tuple or list a  *)
(* sequence, and the outcome of a call a record                            *)
(*     [exc |-> name of the raised exception or "", type, val].            *)
(***************************************************************************)
EXTENDS Integers, Sequences, FiniteSets, TLC

VARIABLES pc, self, call, ret

vars == <<pc, self, call, ret>>

----------------------------------------------------------------------------
(* Bounds of the explored inputs *)

\* indexes explored below 0 and above the last supported column index
OverRange == 3
\* longest column-letter string explored
MaxLetterLen == 4
\* small coordinates explored by the rectangle functions
MaxCoord == 2
\* largest dataframe explored: rows, columns, levels of a MultiIndex
MaxRows == 3
MaxCols == 3
MaxDepth == 2
\* largest skip_rows and skip_columns explored
MaxSkip == 1

----------------------------------------------------------------------------
(* Outcomes of a call *)

Ok(t, v) == [exc |-> "", type |-> t, val |-> v]

Raise(e) == [exc |-> e, type |-> "exception", val |-> <<>>]

None == [exc |-> "", type |-> "NoneType", val |-> <<>>]

NoResult == [exc |-> "", type |-> "pending", val |-> <<>>]

NoObject == [exc |-> "", type |-> "unbound", val |-> <<>>]

----------------------------------------------------------------------------
(* Python built-ins used by the code *)

ascii_uppercase ==
    <<"A", "B", "C", "D", "E", "F", "G", "H", "I", "J", "K", "L", "M",
      "N", "O", "P", "Q", "R", "S", "T", "U", "V", "W", "X", "Y", "Z">>

digits == <<"0", "1", "2", "3", "4", "5", "6", "7", "8", "9">>

\* str.index(ch) on a sequence known to contain ch, zero-based
IndexIn(seq, ch) == (CHOOSE k \in 1..Len(seq) : seq[k] = ch) - 1

Contains(seq, ch) == \E k \in 1..Len(seq) : seq[k] = ch

RECURSIVE DecimalDigits(_)
DecimalDigits(n) ==
    IF n < 10 THEN <<digits[n + 1]>>
    ELSE DecimalDigits(n \div 10) \o <<digits[(n % 10) + 1]>>

\* str(int)
str(n) == IF n < 0 THEN <<"-">> \o DecimalDigits(0 - n) ELSE DecimalDigits(n)

----------------------------------------------------------------------------
(* operations.py: column-letter codec *)

letter_from_index_no_negative_guard(letter_index) ==
    LET units_letter == ascii_uppercase[(letter_index % 26) + 1]
        hundreds_letter ==
            ascii_uppercase[(((letter_index - 26) % (26^2)) \div 26) + 1]
        thousands_letter ==
            ascii_uppercase[(((letter_index - 26^2 - 26) % (26^3)) \div (26^2)) + 1]
    IN  IF letter_index <= 25 THEN Ok("str", <<units_letter>>)
        ELSE IF letter_index <= 26^2 + 25
             THEN Ok("str", <<hundreds_letter, units_letter>>)
        ELSE IF letter_index <= 26^3 + 26^2 + 25
             THEN Ok("str", <<thousands_letter, hundreds_letter, units_letter>>)
        ELSE Raise("ValueError")

letter_from_index_plain_base26(letter_index) ==
    IF letter_index < 0 THEN Raise("ValueError")
    ELSE
    LET units_letter == ascii_uppercase[(letter_index % 26) + 1]
        hundreds_letter ==
            ascii_uppercase[((letter_index % (26^2)) \div 26) + 1]
        thousands_letter ==
            ascii_uppercase[((letter_index % (26^3)) \div (26^2)) + 1]
    IN  IF letter_index <= 25 THEN Ok("str", <<units_letter>>)
        ELSE IF letter_index <= 26^2 + 25
             THEN Ok("str", <<hundreds_letter, units_letter>>)
        ELSE IF letter_index <= 26^3 + 26^2 + 25
             THEN Ok("str", <<thousands_letter, hundreds_letter, units_letter>>)
        ELSE Raise("ValueError")

letter_from_index(letter_index) ==
    IF letter_index < 0 THEN Raise("ValueError")
    ELSE
    LET units_letter == ascii_uppercase[(letter_index % 26) + 1]
        hundreds_letter ==
            ascii_uppercase[(((letter_index - 26) % (26^2)) \div 26) + 1]
        thousands_letter ==
            ascii_uppercase[(((letter_index - 26^2 - 26) % (26^3)) \div (26^2)) + 1]
    IN  IF letter_index <= 25 THEN Ok("str", <<units_letter>>)
        ELSE IF letter_index <= 26^2 + 25
             THEN Ok("str", <<hundreds_letter, units_letter>>)
        ELSE IF letter_index <= 26^3 + 26^2 + 25
             THEN Ok("str", <<thousands_letter, hundreds_letter, units_letter>>)
        ELSE Raise("ValueError")

index_from_letter_no_digit_offset(spreadsheet_letter) ==
    LET n == Len(spreadsheet_letter)
    IN  IF n = 0 THEN Raise("IndexError")
        ELSE IF ~Contains(ascii_uppercase, spreadsheet_letter[n])
             THEN Raise("ValueError")
        ELSE IF n = 1
             THEN Ok("int", IndexIn(ascii_uppercase, spreadsheet_letter[n]))
        ELSE IF ~Contains(ascii_uppercase, spreadsheet_letter[n - 1])
             THEN Raise("ValueError")
        ELSE IF n = 2
             THEN Ok("int", 26 * IndexIn(ascii_uppercase, spreadsheet_letter[n - 1])
                            + IndexIn(ascii_uppercase, spreadsheet_letter[n]))
        ELSE IF ~Contains(ascii_uppercase, spreadsheet_letter[n - 2])
             THEN Raise("ValueError")
        ELSE IF n = 3
             THEN Ok("int", 26^2 * IndexIn(ascii_uppercase, spreadsheet_letter[n - 2])
                            + 26 * IndexIn(ascii_uppercase, spreadsheet_letter[n - 1])
                            + IndexIn(ascii_uppercase, spreadsheet_letter[n]))
        ELSE Raise("ValueError")

index_from_letter_last_three(spreadsheet_letter) ==
    LET n == Len(spreadsheet_letter)
    IN  IF n = 0 THEN Raise("IndexError")
        ELSE IF ~Contains(ascii_uppercase, spreadsheet_letter[n])
             THEN Raise("ValueError")
        ELSE IF n = 1
             THEN Ok("int", IndexIn(ascii_uppercase, spreadsheet_letter[n]))
        ELSE IF ~Contains(ascii_uppercase, spreadsheet_letter[n - 1])
             THEN Raise("ValueError")
        ELSE IF n = 2
             THEN Ok("int", 26 * (IndexIn(ascii_uppercase, spreadsheet_letter[n - 1]) + 1)
                            + IndexIn(ascii_uppercase, spreadsheet_letter[n]))
        ELSE IF ~Contains(ascii_uppercase, spreadsheet_letter[n - 2])
             THEN Raise("ValueError")
        ELSE Ok("int", 26^2 * (IndexIn(ascii_uppercase, spreadsheet_letter[n - 2]) + 1)
                       + 26 * (IndexIn(ascii_uppercase, spreadsheet_letter[n - 1]) + 1)
                       + IndexIn(ascii_uppercase, spreadsheet_letter[n]))

\* spreadsheet_letter[-1], [-2], [-3] are read in this order, each looked up
\* in ascii_uppercase (ValueError when absent) before the length is tested.
index_from_letter(spreadsheet_letter) ==
    LET n == Len(spreadsheet_letter)
    IN  IF n = 0 THEN Raise("IndexError")
        ELSE IF ~Contains(ascii_uppercase, spreadsheet_letter[n])
             THEN Raise("ValueError")
        ELSE IF n = 1
             THEN Ok("int", IndexIn(ascii_uppercase, spreadsheet_letter[n]))
        ELSE IF ~Contains(ascii_uppercase, spreadsheet_letter[n - 1])
             THEN Raise("ValueError")
        ELSE IF n = 2
             THEN Ok("int", 26 * (IndexIn(ascii_uppercase, spreadsheet_letter[n - 1]) + 1)
                            + IndexIn(ascii_uppercase, spreadsheet_letter[n]))
        ELSE IF ~Contains(ascii_uppercase, spreadsheet_letter[n - 2])
             THEN Raise("ValueError")
        ELSE IF n = 3
             THEN Ok("int", 26^2 * (IndexIn(ascii_uppercase, spreadsheet_letter[n - 2]) + 1)
                            + 26 * (IndexIn(ascii_uppercase, spreadsheet_letter[n - 1]) + 1)
                            + IndexIn(ascii_uppercase, spreadsheet_letter[n]))
        ELSE Raise("ValueError")

row_number_from_index_no_offset(row_index) ==
    IF row_index < 0 THEN Raise("ValueError") ELSE Ok("str", str(row_index))

row_number_from_index(row_index) ==
    IF row_index < 0 THEN Raise("ValueError") ELSE Ok("str", str(row_index + 1))

\* the left operand of + is evaluated first
cell_from_coordinates(coordinates) ==
    LET letter == letter_from_index(coordinates[1])
        number == row_number_from_index(coordinates[2])
    IN  IF letter.exc # "" THEN letter
        ELSE IF number.exc # "" THEN number
        ELSE Ok("str", letter.val \o number.val)

cells_range(coordinates_pair) ==
    LET cell1 == cell_from_coordinates(coordinates_pair[1])
        cell2 == cell_from_coordinates(coordinates_pair[2])
    IN  IF cell1.exc # "" THEN cell1
        ELSE IF cell2.exc # "" THEN cell2
        ELSE Ok("str", cell1.val \o <<":">> \o cell2.val)

----------------------------------------------------------------------------
(* operations.py: rectangle enumerator *)

\* one pass of the inner loop: for letter in range(lo, hi + 1)
RECURSIVE row_of_cells(_, _, _)
row_of_cells(number, lo, hi) ==
    IF lo > hi THEN Ok("tuple", <<>>)
    ELSE LET letter == letter_from_index(lo)
             rest   == row_of_cells(number, lo + 1, hi)
         IN  IF letter.exc # "" THEN letter
             ELSE IF rest.exc # "" THEN rest
             ELSE Ok("tuple", <<letter.val \o str(number)>> \o rest.val)

\* the tuple bound to the local name cells:
\* for number in range(starting_number, ending_number + 1), then the inner loop
RECURSIVE generated_cells(_, _, _, _)
generated_cells(starting_letter_pos, ending_letter_pos, number, ending_number) ==
    IF number > ending_number THEN Ok("tuple", <<>>)
    ELSE LET row  == row_of_cells(number, starting_letter_pos, ending_letter_pos)
             rest == generated_cells(starting_letter_pos, ending_letter_pos,
                                     number + 1, ending_number)
         IN  IF row.exc # "" THEN row
             ELSE IF rest.exc # "" THEN rest
             ELSE Ok("tuple", row.val \o rest.val)

\* The function builds the tuple and ends without a return statement: a call
\* that does not raise evaluates to None.
cells_rectangle(coordinates) ==
    LET starting_letter_pos == coordinates[1][1]
        starting_number     == coordinates[1][2]
        ending_letter_pos   == coordinates[2][1]
        ending_number       == coordinates[2][2]
        cells == generated_cells(starting_letter_pos, ending_letter_pos,
                                 starting_number, ending_number)
    IN  IF cells.exc # "" THEN cells ELSE None

----------------------------------------------------------------------------
(* spreadsheet_element.py: SpreadsheetElement *)

SpreadsheetElement(coordinates) ==
    Ok("SpreadsheetElement", [coordinates |-> coordinates])

\* property SpreadsheetElement.cells
cells(element) == cells_rectangle(element.coordinates)

\* property SpreadsheetElement.cells_range
element_cells_range(element) == cells_range(element.coordinates)

----------------------------------------------------------------------------
(* spreadsheet.py: Spreadsheet *)
(* A dataframe is [index, columns]; an axis is [multi, nlevels, labels]:   *)
(* multi tells a pd.MultiIndex from a flat index, labels are its entries.  *)

int(b) == IF b THEN 1 ELSE 0

shape(df) == <<Len(df.index.labels), Len(df.columns.labels)>>

\* len(x[0]) if isinstance(x, pd.MultiIndex) else 1; x[0] of an empty
\* MultiIndex raises IndexError
axis_depth(x) ==
    IF x.multi
    THEN IF Len(x.labels) = 0 THEN Raise("IndexError") ELSE Ok("int", x.nlevels)
    ELSE Ok("int", 1)

\* __init__ takes dataframe, keep_index, skip_rows and skip_columns; any other
\* keyword (kwargs lists the extra keywords of the call) is a TypeError
Spreadsheet(dataframe, keep_index, skip_rows, skip_columns, kwargs) ==
    IF kwargs # {} THEN Raise("TypeError")
    ELSE Ok("Spreadsheet", [keep_index |-> keep_index,
                            df         |-> dataframe,
                            skip_rows  |-> skip_rows,
                            skip_cols  |-> skip_columns])

indexes_depth(s) ==
    LET index_levels   == axis_depth(s.df.index)
        columns_levels == axis_depth(s.df.columns)
    IN  IF index_levels.exc # "" THEN index_levels
        ELSE IF columns_levels.exc # "" THEN columns_levels
        ELSE Ok("tuple", <<index_levels.val, columns_levels.val>>)

header_coordinates_unshifted_top(s) ==
    LET depth == indexes_depth(s)
    IN  IF depth.exc # "" THEN depth
        ELSE LET starting_letter_pos == depth.val[1] * int(s.keep_index) + s.skip_cols
                 starting_number     == 1
                 ending_letter_pos   == starting_letter_pos - 1 + shape(s.df)[2]
                 ending_number       == starting_number - 1 + depth.val[2]
             IN  Ok("list", << <<starting_letter_pos, starting_number>>,
                               <<ending_letter_pos, ending_number>> >>)

header_coordinates_one_narrower(s) ==
    LET depth == indexes_depth(s)
    IN  IF depth.exc # "" THEN depth
        ELSE LET starting_letter_pos == depth.val[1] * int(s.keep_index) + s.skip_cols
                 starting_number     == s.skip_rows + 1
                 ending_letter_pos   == starting_letter_pos - 2 + shape(s.df)[2]
                 ending_number       == starting_number - 1 + depth.val[2]
             IN  Ok("list", << <<starting_letter_pos, starting_number>>,
                               <<ending_letter_pos, ending_number>> >>)

header_coordinates(s) ==
    LET depth == indexes_depth(s)
    IN  IF depth.exc # "" THEN depth
        ELSE LET starting_letter_pos == depth.val[1] * int(s.keep_index) + s.skip_cols
                 starting_number     == s.skip_rows + 1
                 ending_letter_pos   == starting_letter_pos - 1 + shape(s.df)[2]
                 ending_number       == starting_number - 1 + depth.val[2]
             IN  Ok("list", << <<starting_letter_pos, starting_number>>,
                               <<ending_letter_pos, ending_number>> >>)

index_coordinates_one_wider(s) ==
    IF ~s.keep_index THEN None
    ELSE LET depth == indexes_depth(s)
         IN  IF depth.exc # "" THEN depth
             ELSE LET starting_letter_pos == s.skip_cols
                      starting_number     == depth.val[2] + 1 + s.skip_rows
                      ending_letter_pos   == starting_letter_pos + depth.val[1]
                      ending_number       == starting_number - 1 + shape(s.df)[1]
                  IN  Ok("list", << <<starting_letter_pos, starting_number>>,
                                    <<ending_letter_pos, ending_number>> >>)

index_coordinates(s) ==
    IF ~s.keep_index THEN None
    ELSE LET depth == indexes_depth(s)
         IN  IF depth.exc # "" THEN depth
             ELSE LET starting_letter_pos == s.skip_cols
                      starting_number     == depth.val[2] + 1 + s.skip_rows
                      ending_letter_pos   == starting_letter_pos - 1 + depth.val[1]
                      ending_number       == starting_number - 1 + shape(s.df)[1]
                  IN  Ok("list", << <<starting_letter_pos, starting_number>>,
                                    <<ending_letter_pos, ending_number>> >>)

first_column_coordinates(s) ==
    LET depth == indexes_depth(s)
    IN  IF depth.exc # "" THEN depth
        ELSE LET column_letter   == s.skip_cols + depth.val[1] * int(s.keep_index)
                 starting_number == depth.val[2] + 1 + s.skip_rows
                 ending_number   == starting_number - 1 + shape(s.df)[1]
             IN  Ok("list", << <<column_letter, starting_number>>,
                               <<column_letter, ending_number>> >>)

body_coordinates(s) ==
    LET header       == header_coordinates(s)
        first_column == first_column_coordinates(s)
    IN  IF header.exc # "" THEN header
        ELSE IF first_column.exc # "" THEN first_column
        ELSE Ok("list", << <<header.val[1][1], first_column.val[1][2]>>,
                           <<header.val[2][1], first_column.val[2][2]>> >>)

\* self.index_coordinates[0][0] is evaluated first: subscripting the None
\* returned when the index is not kept raises TypeError
table_coordinates(s) ==
    LET index  == index_coordinates(s)
        header == header_coordinates(s)
    IN  IF index.exc # "" THEN index
        ELSE IF index.type = "NoneType" THEN Raise("TypeError")
        ELSE IF header.exc # "" THEN header
        ELSE Ok("list", << <<index.val[1][1], header.val[1][2]>>,
                           <<header.val[2][1], index.val[2][2]>> >>)

\* the element properties wrap the coordinates of the same name
element_of(coordinates) ==
    IF coordinates.exc # "" THEN coordinates
    ELSE SpreadsheetElement(coordinates.val)

header(s) == element_of(header_coordinates(s))

index(s) == IF ~s.keep_index THEN None ELSE element_of(index_coordinates(s))

body(s) == element_of(body_coordinates(s))

table(s) == element_of(table_coordinates(s))

first_column(s) == element_of(first_column_coordinates(s))

----------------------------------------------------------------------------
(* Python built-ins used by the selector methods *)

\* an exception whose message quotes the given values
Raising(e, quoted) == [exc |-> e, type |-> "exception", val |-> quoted]

Whitespace == {" ", "\t", "\n"}

RECURSIVE lstrip(_)
lstrip(s) == IF Len(s) > 0 /\ s[1] \in Whitespace THEN lstrip(Tail(s)) ELSE s

RECURSIVE rstrip(_)
rstrip(s) ==
    IF Len(s) > 0 /\ s[Len(s)] \in Whitespace
    THEN rstrip(SubSeq(s, 1, Len(s) - 1))
    ELSE s

\* str.strip()
strip(s) == rstrip(lstrip(s))

\* str.find(ch): zero-based position of the first occurrence, or -1
find(s, ch) ==
    IF Contains(s, ch)
    THEN (CHOOSE k \in 1..Len(s) : s[k] = ch /\ \A j \in 1..(k - 1) : s[j] # ch) - 1
    ELSE 0 - 1

\* str.split(sep) for a one-character separator
RECURSIVE split(_, _)
split(s, sep) ==
    LET at == find(s, sep)
    IN  IF at = 0 - 1 THEN <<s>>
        ELSE <<SubSeq(s, 1, at)>> \o split(SubSeq(s, at + 2, Len(s)), sep)

\* range(start, stop) as a list
range(start, stop) == [k \in 1..(stop - start) |-> start + k - 1]

IsDigits(s) == Len(s) > 0 /\ \A k \in 1..Len(s) : Contains(digits, s[k])

RECURSIVE digits_value(_)
digits_value(s) ==
    IF Len(s) = 0 THEN 0
    ELSE 10 * digits_value(SubSeq(s, 1, Len(s) - 1)) + IndexIn(digits, s[Len(s)])

\* int(str): surrounding whitespace, an optional sign, then decimal digits
\* (digit grouping with underscores is not modelled)
parse_int(text) ==
    LET body_text == strip(text)
        signed    == Len(body_text) > 0 /\ body_text[1] \in {"+", "-"}
        magnitude == IF signed THEN Tail(body_text) ELSE body_text
    IN  IF ~IsDigits(magnitude) THEN Raise("ValueError")
        ELSE IF signed /\ body_text[1] = "-"
             THEN Ok("int", 0 - digits_value(magnitude))
        ELSE Ok("int", digits_value(magnitude))

\* list.extend(iterable): None is not iterable
extend(list, iterable) ==
    IF iterable.exc # "" THEN iterable
    ELSE IF iterable.type \in {"tuple", "list"} THEN Ok("list", list \o iterable.val)
    ELSE Raise("TypeError")

----------------------------------------------------------------------------
(* spreadsheet.py: selector methods of Spreadsheet *)
(* A selector value is [kind, value], kind being its Python type.          *)

\* self.df.columns.to_list(): the labels of a flat header; the entries of a
\* MultiIndex are tuples, which no str equals
to_list(columns) == IF columns.multi THEN <<>> ELSE columns.labels

_input_as_list_no_unwanted_type(input_, unwanted_type) ==
    IF input_.kind \notin {"list", "tuple"} THEN Ok("list", <<input_>>)
    ELSE Ok(input_.kind, input_.value)

_input_as_list(input_, unwanted_type) ==
    IF input_.kind \in unwanted_type THEN Raising("TypeError", <<input_>>)
    ELSE IF input_.kind \notin {"list", "tuple"} THEN Ok("list", <<input_>>)
    ELSE Ok(input_.kind, input_.value)

_str_index_to_int_letter_first(s, single_item_str, columns) ==
    LET item   == strip(single_item_str)
        labels == to_list(s.df.columns)
    IN  IF columns
        THEN IF index_from_letter(item).exc = "" THEN index_from_letter(item)
             ELSE IF Contains(labels, item) THEN Ok("int", find(labels, item))
             ELSE index_from_letter(item)
        ELSE IF parse_int(item).exc = "" THEN parse_int(item)
             ELSE Raising("ValueError", <<item>>)

_str_index_to_int_bare_error(s, single_item_str, columns) ==
    LET item   == strip(single_item_str)
        labels == to_list(s.df.columns)
    IN  IF columns
        THEN IF Contains(labels, item) THEN Ok("int", find(labels, item))
             ELSE index_from_letter(item)
        ELSE IF parse_int(item).exc = "" THEN parse_int(item)
             ELSE Raise("ValueError")

_str_index_to_int(s, single_item_str, columns) ==
    LET item   == strip(single_item_str)
        labels == to_list(s.df.columns)
    IN  IF columns
        THEN IF Contains(labels, item) THEN Ok("int", find(labels, item))
             ELSE index_from_letter(item)
        ELSE IF parse_int(item).exc = "" THEN parse_int(item)
             ELSE Raising("ValueError", <<item>>)

extend_range_either_direction(lo, hi) ==
    IF lo.exc # "" THEN lo
    ELSE IF hi.exc # "" THEN hi
    ELSE IF lo.val > hi.val THEN Ok("list", range(hi.val, lo.val + 1))
    ELSE Ok("list", range(lo.val, hi.val + 1))

\* output.extend(range(lo, hi + 1)), lo evaluated before hi
extend_range(lo, hi) ==
    IF lo.exc # "" THEN lo
    ELSE IF hi.exc # "" THEN hi
    ELSE Ok("list", range(lo.val, hi.val + 1))

\* output.append(item)
append(item) == IF item.exc # "" THEN item ELSE Ok("list", <<item.val>>)

\* what one iteration added, followed by what the iterations after it add;
\* the first exception ends the loop
iterate(first, rest) ==
    IF first.exc # "" THEN first
    ELSE IF rest.exc # "" THEN rest
    ELSE Ok("list", first.val \o rest.val)

bit_to_int_exclusive_end(s, bit, columns) ==
    IF find(bit, ":") > 0 - 1
    THEN IF Len(split(bit, ":")) > 2 THEN Raise("ValueError")
         ELSE LET lo == _str_index_to_int(s, split(bit, ":")[1], columns)
                  hi == _str_index_to_int(s, split(bit, ":")[2], columns)
              IN  IF lo.exc # "" THEN lo
                  ELSE IF hi.exc # "" THEN hi
                  ELSE Ok("list", range(lo.val, hi.val))
    ELSE append(_str_index_to_int(s, bit, columns))

bit_to_int_first_two_parts(s, bit, columns) ==
    IF find(bit, ":") > 0 - 1
    THEN extend_range(_str_index_to_int(s, split(bit, ":")[1], columns),
                      _str_index_to_int(s, split(bit, ":")[2], columns))
    ELSE append(_str_index_to_int(s, bit, columns))

\* one bit of a comma list: a token or a lo:hi range
bit_to_int(s, bit, columns) ==
    IF find(bit, ":") > 0 - 1
    THEN IF Len(split(bit, ":")) > 2 THEN Raise("ValueError")
         ELSE extend_range(_str_index_to_int(s, split(bit, ":")[1], columns),
                           _str_index_to_int(s, split(bit, ":")[2], columns))
    ELSE append(_str_index_to_int(s, bit, columns))

\* the loop "for bit in str_key"
RECURSIVE bits_to_int(_, _, _)
bits_to_int(s, bits, columns) ==
    IF Len(bits) = 0 THEN Ok("list", <<>>)
    ELSE iterate(bit_to_int(s, Head(bits), columns),
                 bits_to_int(s, Tail(bits), columns))

_str_key_to_int(s, str_key, columns) == bits_to_int(s, split(str_key, ","), columns)

element_to_int_checks_bound(s, element, columns, offset) ==
    IF element.kind = "str" THEN _str_key_to_int(s, element.value, columns)
    ELSE IF element.kind = "int"
         THEN IF /\ body_coordinates(s).exc = ""
                 /\ element.value + offset
                       > body_coordinates(s).val[2][IF columns THEN 1 ELSE 2]
              THEN Raise("KeyError")
              ELSE Ok("list", <<element.value + offset>>)
    ELSE Ok("list", <<>>)

\* one element of the loop "for element in key" of column (offset 0) and row
\* (offset 1): a str is resolved, an int appended with the offset, anything
\* else skipped
element_to_int(s, element, columns, offset) ==
    IF element.kind = "str" THEN _str_key_to_int(s, element.value, columns)
    ELSE IF element.kind = "int" THEN Ok("list", <<element.value + offset>>)
    ELSE Ok("list", <<>>)

\* the loop "for element in key"; key is the outcome of _input_as_list
RECURSIVE key_to_int_index(_, _, _, _)
key_to_int_index(s, key, columns, offset) ==
    IF key.exc # "" THEN key
    ELSE IF Len(key.val) = 0 THEN Ok("list", <<>>)
    ELSE iterate(element_to_int(s, Head(key.val), columns, offset),
                 key_to_int_index(s, Ok(key.type, Tail(key.val)), columns, offset))

\* the loop "for col_index in int_index" of column; cells is the list so far,
\* or the exception that ended the loop
RECURSIVE column_cells(_, _, _, _, _)
column_cells(s, int_index, top_row, end_row, cells_so_far) ==
    IF cells_so_far.exc # "" THEN cells_so_far
    ELSE IF Len(int_index) = 0 THEN cells_so_far
    ELSE IF Head(int_index) > body_coordinates(s).val[2][1] THEN Raise("KeyError")
    ELSE column_cells(s, Tail(int_index), top_row, end_row,
                      extend(cells_so_far.val,
                             cells_rectangle(<< <<Head(int_index), top_row>>,
                                                <<Head(int_index), end_row>> >>)))

\* column after "for element in key": int_index and self.indexes_depth are
\* the outcomes of the loop and of the property read
column_of_indices(s, int_index, depth, include_header) ==
    IF int_index.exc # "" THEN int_index
    ELSE IF depth.exc # "" THEN depth
    ELSE column_cells(s, int_index.val,
                      depth.val[2] * int(~include_header) + 1 + s.skip_rows,
                      body_coordinates(s).val[2][2], Ok("list", <<>>))

column(s, key, include_header) ==
    column_of_indices(s, key_to_int_index(s, _input_as_list(key, {"dict"}), TRUE, 0),
                      indexes_depth(s), include_header)

\* the loop "for row_index in int_index" of row
RECURSIVE row_cells(_, _, _, _, _)
row_cells(s, int_index, left_col, right_col, cells_so_far) ==
    IF cells_so_far.exc # "" THEN cells_so_far
    ELSE IF Len(int_index) = 0 THEN cells_so_far
    ELSE IF Head(int_index) > body_coordinates(s).val[2][2] THEN Raise("KeyError")
    ELSE row_cells(s, Tail(int_index), left_col, right_col,
                   extend(cells_so_far.val,
                          cells_rectangle(<< <<left_col, Head(int_index)>>,
                                             <<right_col, Head(int_index)>> >>)))

\* row after "for element in key"
row_of_indices(s, int_index, depth, include_index) ==
    IF int_index.exc # "" THEN int_index
    ELSE IF depth.exc # "" THEN depth
    ELSE row_cells(s, int_index.val,
                   s.skip_cols
                   + (depth.val[1] * int(~include_index)) * int(s.keep_index),
                   body_coordinates(s).val[2][1], Ok("list", <<>>))

row(s, key, include_index) ==
    row_of_indices(s, key_to_int_index(s, _input_as_list(key, {"dict"}), FALSE, 1),
                   indexes_depth(s), include_index)

----------------------------------------------------------------------------
(* Inputs of the module-level functions *)

\* index of column "ZZZ", the last one letter_from_index accepts
LastIndex == 26^3 + 26^2 + 25

Letters == {ascii_uppercase[k] : k \in 1..Len(ascii_uppercase)}

\* every supported index, a margin on both sides and a few far values
LetterIndexInputs ==
    ((0 - OverRange)..(LastIndex + OverRange))
    \cup {0 - 26, 0 - 27, LastIndex + 26^2, LastIndex + 26^3, 26^4, 26^4 + 26^3}

\* every uppercase string of 1 to 3 letters, longer strings over a few
\* letters, and short strings with characters outside A..Z
LetterInputs ==
    UNION {[1..n -> Letters] : n \in 1..3}
    \cup UNION {[1..n -> {"A", "M", "Z"}] : n \in 4..MaxLetterLen}
    \cup UNION {[1..n -> {"B", "b", "1"}] : n \in 0..2}

RowIndexInputs == ((0 - OverRange)..MaxCoord) \cup {8, 9, 10, 98, 99, 100, 999}

ColumnSamples ==
    ((0 - 1)..MaxCoord) \cup {25, 26, 701, 702, LastIndex, LastIndex + 1}

RowSamples == ((0 - 1)..MaxCoord) \cup {9, 10, 99, 100}

CoordinateInputs == ColumnSamples \X RowSamples

PairInputs == CoordinateInputs \X CoordinateInputs

\* rectangles of at most (MaxCoord + 2) columns and rows, empty ones included
RectangleInputs ==
    {p \in PairInputs : /\ p[2][1] - p[1][1] <= MaxCoord + 1
                        /\ p[2][2] - p[1][2] <= MaxCoord + 1}

----------------------------------------------------------------------------
(* Specification of the module-level functions: one call per behaviour *)

InitOps ==
    /\ pc = "start"
    /\ self = NoObject
    /\ ret = NoResult
    /\ \/ \E i \in LetterIndexInputs : call = [fn |-> "letter_from_index", arg |-> i]
       \/ \E s \in LetterInputs : call = [fn |-> "index_from_letter", arg |-> s]
       \/ \E i \in RowIndexInputs : call = [fn |-> "row_number_from_index", arg |-> i]
       \/ \E c \in CoordinateInputs : call = [fn |-> "cell_from_coordinates", arg |-> c]
       \/ \E p \in PairInputs : call = [fn |-> "cells_range", arg |-> p]
       \/ \E p \in RectangleInputs : call = [fn |-> "cells_rectangle", arg |-> p]

Returns(fn, result) ==
    /\ pc = "start"
    /\ call.fn = fn
    /\ ret' = result
    /\ pc' = "done"
    /\ UNCHANGED <<self, call>>

CallLetterFromIndex == Returns("letter_from_index", letter_from_index(call.arg))

CallIndexFromLetter == Returns("index_from_letter", index_from_letter(call.arg))

CallRowNumberFromIndex ==
    Returns("row_number_from_index", row_number_from_index(call.arg))

CallCellFromCoordinates ==
    Returns("cell_from_coordinates", cell_from_coordinates(call.arg))

CallCellsRange == Returns("cells_range", cells_range(call.arg))

CallCellsRectangle == Returns("cells_rectangle", cells_rectangle(call.arg))

NextOps ==
    \/ CallLetterFromIndex
    \/ CallIndexFromLetter
    \/ CallRowNumberFromIndex
    \/ CallCellFromCoordinates
    \/ CallCellsRange
    \/ CallCellsRectangle

SpecOps == InitOps /\ [][NextOps]_vars

Done(fn) == pc = "done" /\ call.fn = fn

----------------------------------------------------------------------------
(* Reference notions used to state the properties *)

\* bijective base-26 numeral of n >= 0 (digits A..Z worth 1..26, no zero digit)
RECURSIVE bijective_base26(_)
bijective_base26(n) ==
    IF n = 0 THEN <<>>
    ELSE bijective_base26((n - 1) \div 26) \o <<ascii_uppercase[((n - 1) % 26) + 1]>>

\* value of a string of decimal digits
RECURSIVE decimal_value(_)
decimal_value(s) ==
    IF Len(s) = 0 THEN 0
    ELSE 10 * decimal_value(SubSeq(s, 1, Len(s) - 1)) + IndexIn(digits, s[Len(s)])

IsUppercase(s) == \A k \in 1..Len(s) : Contains(ascii_uppercase, s[k])

Text(s) == [k \in 1..Len(s) |-> s[k]]

----------------------------------------------------------------------------
(* Properties of the column-letter codec, checked under SpecOps *)

\* C1: letter_from_index and index_from_letter are mutually inverse: every
\* index 0..18277 converted to letters converts back to itself, and every
\* uppercase string of 1 to 3 letters converted to an index converts back
\* to itself.
C1_RoundTrip ==
    /\ (Done("letter_from_index") /\ call.arg \in 0..LastIndex)
          => /\ ret.exc = ""
             /\ index_from_letter(ret.val).exc = ""
             /\ index_from_letter(ret.val).val = call.arg
    /\ (Done("index_from_letter") /\ Len(call.arg) \in 1..3 /\ IsUppercase(call.arg))
          => /\ ret.exc = ""
             /\ letter_from_index(ret.val).exc = ""
             /\ letter_from_index(ret.val).val = call.arg

C1_Witness ==
    /\ Done("index_from_letter")
    /\ call.arg = <<"Z", "Z", "Z">>
    /\ ret.exc = ""
    /\ ret.val = LastIndex
    /\ letter_from_index(ret.val).val = <<"Z", "Z", "Z">>

\* C2: for every index i in 0..18277 letter_from_index(i) is the bijective
\* base-26 numeral of i + 1: one letter up to 25, two up to 701, three up to
\* 18277, with 0->A, 25->Z, 26->AA, 701->ZZ, 702->AAA, 18277->ZZZ.
C2_BijectiveBase26 ==
    (Done("letter_from_index") /\ call.arg \in 0..LastIndex)
       => /\ ret.exc = ""
          /\ ret.type = "str"
          /\ ret.val = bijective_base26(call.arg + 1)
          /\ Len(ret.val) = (IF call.arg <= 25 THEN 1 ELSE IF call.arg <= 701 THEN 2 ELSE 3)
          /\ call.arg = 0 => ret.val = <<"A">>
          /\ call.arg = 25 => ret.val = <<"Z">>
          /\ call.arg = 26 => ret.val = <<"A", "A">>
          /\ call.arg = 701 => ret.val = <<"Z", "Z">>
          /\ call.arg = 702 => ret.val = <<"A", "A", "A">>
          /\ call.arg = 18277 => ret.val = <<"Z", "Z", "Z">>

C2_Witness ==
    /\ Done("letter_from_index")
    /\ call.arg = 702
    /\ ret.exc = ""
    /\ ret.val = <<"A", "A", "A">>

\* C3: letter_from_index raises ValueError, and returns no letter, for every
\* index below 0 and every index above 18277.
C3_OutOfRangeIndexRaises ==
    (Done("letter_from_index") /\ (call.arg < 0 \/ call.arg > 18277))
       => /\ ret.exc = "ValueError"
          /\ ret.type # "str"

C3_Witness ==
    /\ Done("letter_from_index")
    /\ call.arg = 0 - 1
    /\ ret.exc = "ValueError"

\* C4: index_from_letter raises ValueError for every uppercase string of more
\* than 3 letters, and never returns an index above 18277.
C4_LongLetterRaises ==
    /\ (Done("index_from_letter") /\ Len(call.arg) > 3 /\ IsUppercase(call.arg))
          => ret.exc = "ValueError"
    /\ (Done("index_from_letter") /\ ret.exc = "")
          => ret.val <= 18277

C4_Witness ==
    /\ Done("index_from_letter")
    /\ call.arg = <<"A", "A", "A", "A">>
    /\ ret.exc = "ValueError"

----------------------------------------------------------------------------
(* Properties of the rectangle enumerator, checked under SpecOps *)

ValidColumn(c) == c \in 0..LastIndex

\* C5: for c0 <= c1 and r0 <= r1, cells_rectangle(((c0,r0),(c1,r1))) returns
\* the (c1-c0+1)*(r1-r0+1) labels in row-major order, rows ascending and
\* columns ascending within a row, each label the column letter followed by
\* the decimal row number; ((0,1),(1,2)) gives A1, B1, A2, B2.
C5_CellsRectangleRowMajor ==
    (/\ Done("cells_rectangle")
     /\ call.arg[1][1] <= call.arg[2][1]
     /\ call.arg[1][2] <= call.arg[2][2]
     /\ ValidColumn(call.arg[1][1])
     /\ ValidColumn(call.arg[2][1])
     /\ call.arg[1][2] >= 0)
       => LET c0 == call.arg[1][1]
              r0 == call.arg[1][2]
              width  == call.arg[2][1] - c0 + 1
              height == call.arg[2][2] - r0 + 1
          IN  /\ ret.exc = ""
              /\ ret.type = "tuple"
              /\ Len(ret.val) = width * height
              /\ \A k \in 1..(width * height) :
                    ret.val[k] = bijective_base26(c0 + ((k - 1) % width) + 1)
                                 \o str(r0 + ((k - 1) \div width))
              /\ call.arg = <<<<0, 1>>, <<1, 2>>>>
                    => ret.val = <<Text(<<"A", "1">>), Text(<<"B", "1">>),
                                   Text(<<"A", "2">>), Text(<<"B", "2">>)>>

\* C6: cell_from_coordinates((c, r)) is letter_from_index(c) followed by
\* row_number_from_index(r); row_number_from_index(r) is the decimal of r + 1
\* for r >= 0 and raises ValueError for r < 0; cells_range joins the labels of
\* the two corners with a colon; ((0,0),(1,1)) gives "A1:B2", (2,1) gives "C2".
C6_CellLabels ==
    /\ (Done("row_number_from_index") /\ call.arg >= 0)
          => /\ ret.exc = ""
             /\ ret.val = str(call.arg + 1)
             /\ decimal_value(ret.val) = call.arg + 1
    /\ (Done("row_number_from_index") /\ call.arg < 0)
          => ret.exc = "ValueError"
    /\ (Done("cell_from_coordinates") /\ ValidColumn(call.arg[1]) /\ call.arg[2] >= 0)
          => /\ ret.exc = ""
             /\ ret.val = bijective_base26(call.arg[1] + 1) \o str(call.arg[2] + 1)
             /\ ret.val = letter_from_index(call.arg[1]).val
                          \o row_number_from_index(call.arg[2]).val
    /\ (Done("cell_from_coordinates") /\ ValidColumn(call.arg[1]) /\ call.arg[2] < 0)
          => ret.exc = "ValueError"
    /\ (Done("cell_from_coordinates") /\ call.arg = <<2, 1>>)
          => ret.val = <<"C", "2">>
    /\ (/\ Done("cells_range")
        /\ cell_from_coordinates(call.arg[1]).exc = ""
        /\ cell_from_coordinates(call.arg[2]).exc = "")
          => /\ ret.exc = ""
             /\ ret.val = cell_from_coordinates(call.arg[1]).val
                          \o <<":">> \o cell_from_coordinates(call.arg[2]).val
    /\ (Done("cells_range") /\ call.arg = <<<<0, 0>>, <<1, 1>>>>)
          => ret.val = <<"A", "1", ":", "B", "2">>

C6_Witness ==
    /\ Done("cells_range")
    /\ call.arg = <<<<0, 0>>, <<1, 1>>>>
    /\ ret.exc = ""
    /\ ret.val = <<"A", "1", ":", "B", "2">>

----------------------------------------------------------------------------
(* Inputs of the Spreadsheet constructor *)

Words ==
    << <<"F", "o", "o">>, <<"B", "a", "r">>, <<"F", "e", "z">>,
       <<"B", "a", "z">>, <<"Q", "u", "x">>, <<"Z", "o", "t">> >>

\* column labels "A", "B", "C", ... or "Foo", "Bar", "Fez", ...
ColumnLabels(n) ==
    {[k \in 1..n |-> <<ascii_uppercase[k]>>], [k \in 1..n |-> Words[k]]}

\* row labels 0, 1, 2, ... (a RangeIndex)
RowLabels(n) == [k \in 1..n |-> k - 1]

\* a flat axis, or a MultiIndex of 1..MaxDepth levels
AxisKinds ==
    {[multi |-> FALSE, nlevels |-> 1]}
    \cup {[multi |-> TRUE, nlevels |-> d] : d \in 1..MaxDepth}

Axis(kind, labels) ==
    [multi |-> kind.multi, nlevels |-> kind.nlevels, labels |-> labels]

DataFrames ==
    {[index |-> Axis(ik, RowLabels(r)), columns |-> Axis(ck, labels)] :
        ik \in AxisKinds, ck \in AxisKinds, r \in 0..MaxRows,
        labels \in UNION {ColumnLabels(c) : c \in 0..MaxCols}}

\* keywords a caller passes beyond the four parameters of __init__
ExtraKeywords == {{}, {[name |-> "keep_header", value |-> FALSE]},
                      {[name |-> "keep_header", value |-> TRUE]}}

ConstructorArgs ==
    [dataframe : DataFrames, keep_index : BOOLEAN, skip_rows : 0..MaxSkip,
     skip_columns : 0..MaxSkip, kwargs : ExtraKeywords]

----------------------------------------------------------------------------
(* Specification of a Spreadsheet: construction, then any reads *)

Init ==
    /\ pc = "start"
    /\ self = NoObject
    /\ ret = NoResult
    /\ \E a \in ConstructorArgs : call = [fn |-> "Spreadsheet", arg |-> a]

Construct ==
    /\ pc = "start"
    /\ call.fn = "Spreadsheet"
    /\ LET a == call.arg
           object == Spreadsheet(a.dataframe, a.keep_index, a.skip_rows,
                                 a.skip_columns, a.kwargs)
       IN  /\ ret' = object
           /\ self' = IF object.exc = "" THEN object ELSE self
           /\ pc' = IF object.exc = "" THEN "ready" ELSE "failed"
    /\ UNCHANGED call

\* reading a property of the constructed object
Read(name, result) ==
    /\ pc = "ready"
    /\ call' = [fn |-> name, arg |-> <<>>]
    /\ ret' = result
    /\ UNCHANGED <<pc, self>>

HeaderCoordinates == Read("header_coordinates", header_coordinates(self.val))

IndexCoordinates == Read("index_coordinates", index_coordinates(self.val))

BodyCoordinates == Read("body_coordinates", body_coordinates(self.val))

TableCoordinates == Read("table_coordinates", table_coordinates(self.val))

FirstColumnCoordinates ==
    Read("first_column_coordinates", first_column_coordinates(self.val))

Header == Read("header", header(self.val))

Index == Read("index", index(self.val))

Body == Read("body", body(self.val))

Table == Read("table", table(self.val))

FirstColumn == Read("first_column", first_column(self.val))

\* reading a property of the element the last read returned
ReadElement(name, result) ==
    /\ pc = "ready"
    /\ ret.type = "SpreadsheetElement"
    /\ call' = [fn |-> name, arg |-> [region |-> call.fn, element |-> ret.val]]
    /\ ret' = result
    /\ UNCHANGED <<pc, self>>

ElementCells == ReadElement("cells", cells(ret.val))

ElementCellsRange == ReadElement("cells_range", element_cells_range(ret.val))

Next ==
    \/ Construct
    \/ HeaderCoordinates
    \/ IndexCoordinates
    \/ BodyCoordinates
    \/ TableCoordinates
    \/ FirstColumnCoordinates
    \/ Header
    \/ Index
    \/ Body
    \/ Table
    \/ FirstColumn
    \/ ElementCells
    \/ ElementCellsRange

Spec == Init /\ [][Next]_vars

----------------------------------------------------------------------------
(* Calls of the selector methods on a constructed Spreadsheet *)

\* str.join
RECURSIVE join(_, _)
join(bits, sep) ==
    IF Len(bits) = 0 THEN <<>>
    ELSE IF Len(bits) = 1 THEN bits[1]
    ELSE bits[1] \o <<sep>> \o join(Tail(bits), sep)

IntKey(n) == [kind |-> "int", value |-> n]

StrKey(text) == [kind |-> "str", value |-> text]

ListKey(elements) == [kind |-> "list", value |-> elements]

TupleKey(elements) == [kind |-> "tuple", value |-> elements]

DictKey == [kind |-> "dict", value |-> <<>>]

FloatKey == [kind |-> "float", value |-> <<>>]

\* column labels "A", "B", ... or "Foo", "Bar", ... or "Foo", "A", "B", ...
SelectorLabels(n) ==
    ColumnLabels(n)
    \cup {[k \in 1..n |-> IF k = 1 THEN Words[1] ELSE <<ascii_uppercase[k - 1]>>]}

SelectorFrames ==
    {[index |-> Axis(kind, RowLabels(r)), columns |-> Axis(kind, labels)] :
        kind \in {[multi |-> FALSE, nlevels |-> 1],
                  [multi |-> TRUE, nlevels |-> MaxDepth]},
        r \in {0, MaxRows},
        labels \in UNION {SelectorLabels(c) : c \in 2..MaxCols}}

SelectorObjects ==
    {Spreadsheet(df, keep_index, skip_rows, skip_columns, {}) :
        df \in SelectorFrames, keep_index \in BOOLEAN,
        skip_rows \in {0, MaxSkip}, skip_columns \in {0, MaxSkip}}

\* an index past the last row and the last column of every table drawn
FarIndex == MaxSkip + MaxDepth + MaxRows + MaxCols

IntElements == {0 - 1, 0, 1, FarIndex}

\* "A", "C", "Z", "Foo", "Fez", " Bar", "B ", "", "b"
ColumnTokens ==
    {<<"A">>, <<"C">>, <<"Z">>, Words[1], Words[3], <<" ">> \o Words[2],
     <<"B", " ">>, <<>>, <<"b">>}

ColumnRanges ==
    {join(<<lo, hi>>, ":") : lo, hi \in {<<"A">>, <<"C">>, Words[1], Words[3]}}

ColumnManyColons == <<"A", ":", "B", ":", "C">>

\* the bits comma lists are assembled from: "A", "Foo", " Bar", "", "Foo:C",
\* "C:A", "A:B:C", "Z"
ColumnBits ==
    {<<"A">>, Words[1], <<" ">> \o Words[2], <<>>,
     join(<<Words[1], <<"C">>>>, ":"), join(<<<<"C">>, <<"A">>>>, ":"),
     ColumnManyColons, <<"Z">>}

MaxBits == 2

CommaLists(bits) ==
    {join(list, ",") : list \in UNION {[1..n -> bits] : n \in 2..MaxBits}}

ColumnStrings ==
    ColumnTokens \cup ColumnRanges \cup {ColumnManyColons}
    \cup CommaLists(ColumnBits)

\* "1", " 2", "-1", "x", "", and a number past the last row
RowTokens ==
    {str(1), <<" ">> \o str(2), str(0 - 1), str(FarIndex), <<"x">>, <<>>}

RowRanges == {join(<<str(lo), str(hi)>>, ":") : lo, hi \in 1..MaxRows}

RowManyColons == join(<<str(1), str(2), str(3)>>, ":")

RowBits ==
    {str(1), <<" ">> \o str(2), <<"x">>, join(<<str(2), str(3)>>, ":"),
     join(<<str(3), str(1)>>, ":"), RowManyColons, str(FarIndex)}

RowStrings ==
    RowTokens \cup RowRanges \cup {RowManyColons} \cup CommaLists(RowBits)

MaxKeyLen == 2

\* lists and tuples of at most MaxKeyLen elements
Collections(elements) ==
    LET lists == UNION {[1..n -> elements] : n \in 0..MaxKeyLen}
    IN  {ListKey(l) : l \in lists}
        \cup {TupleKey(l) : l \in {x \in lists : Len(x) = 1}}

ColumnElements ==
    {IntKey(0 - 1), IntKey(0), IntKey(FarIndex), FloatKey,
     StrKey(ColumnManyColons), StrKey(join(<<Words[1], <<"C">>>>, ":"))}

RowElements ==
    {IntKey(0 - 1), IntKey(0), IntKey(FarIndex), FloatKey, StrKey(<<"x">>),
     StrKey(RowManyColons), StrKey(join(<<str(2), str(3)>>, ":"))}

ColumnKeys ==
    {IntKey(n) : n \in IntElements} \cup {StrKey(t) : t \in ColumnStrings}
    \cup Collections(ColumnElements) \cup {DictKey, FloatKey}

RowKeys ==
    {IntKey(n) : n \in IntElements} \cup {StrKey(t) : t \in RowStrings}
    \cup Collections(RowElements) \cup {DictKey, FloatKey}

InitSelect ==
    /\ pc = "calling"
    /\ ret = NoResult
    /\ \E object \in SelectorObjects : self = object
    /\ \/ \E key \in ColumnKeys, include_header \in BOOLEAN :
            call = [fn |-> "column",
                    arg |-> [key |-> key, include_header |-> include_header]]
       \/ \E key \in RowKeys, include_index \in BOOLEAN :
            call = [fn |-> "row",
                    arg |-> [key |-> key, include_index |-> include_index]]
       \/ \E str_key \in ColumnStrings :
            call = [fn |-> "_str_key_to_int",
                    arg |-> [str_key |-> str_key, columns |-> TRUE]]
       \/ \E str_key \in RowStrings :
            call = [fn |-> "_str_key_to_int",
                    arg |-> [str_key |-> str_key, columns |-> FALSE]]
       \/ \E single_item_str \in ColumnTokens :
            call = [fn |-> "_str_index_to_int",
                    arg |-> [single_item_str |-> single_item_str,
                             columns |-> TRUE]]
       \/ \E single_item_str \in RowTokens :
            call = [fn |-> "_str_index_to_int",
                    arg |-> [single_item_str |-> single_item_str,
                             columns |-> FALSE]]

Selects(fn, result) ==
    /\ pc = "calling"
    /\ call.fn = fn
    /\ ret' = result
    /\ pc' = "returned"
    /\ UNCHANGED <<self, call>>

CallColumn ==
    Selects("column", column(self.val, call.arg.key, call.arg.include_header))

CallRow == Selects("row", row(self.val, call.arg.key, call.arg.include_index))

CallStrKeyToInt ==
    Selects("_str_key_to_int",
            _str_key_to_int(self.val, call.arg.str_key, call.arg.columns))

CallStrIndexToInt ==
    Selects("_str_index_to_int",
            _str_index_to_int(self.val, call.arg.single_item_str,
                              call.arg.columns))

NextSelect ==
    \/ CallColumn
    \/ CallRow
    \/ CallStrKeyToInt
    \/ CallStrIndexToInt

SpecSelect == InitSelect /\ [][NextSelect]_vars

----------------------------------------------------------------------------
(* A Spreadsheet whose attributes are reassigned between its calls *)


\* object.name = value; the four attributes are plain instance attributes
setattr(object, name, value) ==
    IF name = "keep_index" THEN [object EXCEPT !.val.keep_index = value]
    ELSE IF name = "skip_rows" THEN [object EXCEPT !.val.skip_rows = value]
    ELSE IF name = "skip_cols" THEN [object EXCEPT !.val.skip_cols = value]
    ELSE [object EXCEPT !.val.df = value]

\* the selectors of the calls made between the assignments: 0, "A", "C:A",
\* "A:B:C", an index past the table, an empty list and a dict
RepeatedColumnKeys ==
    {IntKey(0), IntKey(FarIndex), StrKey(<<"A">>),
     StrKey(join(<<<<"C">>, <<"A">>>>, ":")), StrKey(ColumnManyColons),
     ListKey(<<>>), DictKey}

RepeatedRowKeys ==
    {IntKey(0), IntKey(FarIndex), StrKey(str(1)),
     StrKey(join(<<str(3), str(1)>>, ":")), StrKey(RowManyColons),
     ListKey(<<>>), DictKey}

InitMutate ==
    /\ pc = "ready"
    /\ ret = NoResult
    /\ call = [fn |-> "Spreadsheet", arg |-> <<>>]
    /\ \E object \in SelectorObjects : self = object

Assign(name, value) ==
    /\ pc = "ready"
    /\ self' = setattr(self, name, value)
    /\ call' = [fn |-> "setattr", arg |-> [name |-> name, value |-> value]]
    /\ ret' = None
    /\ UNCHANGED pc

SetKeepIndex == \E value \in BOOLEAN : Assign("keep_index", value)

SetSkipRows == \E value \in 0..MaxSkip : Assign("skip_rows", value)

SetSkipCols == \E value \in 0..MaxSkip : Assign("skip_cols", value)

SetDataFrame == \E value \in SelectorFrames : Assign("df", value)

Calls_consuming_skipped_rows(name, arg, result) ==
    /\ pc = "ready"
    /\ call' = [fn |-> name, arg |-> arg]
    /\ ret' = result
    /\ self' = setattr(self, "skip_rows", 0)
    /\ UNCHANGED pc

\* calling a method of the object
Calls(name, arg, result) ==
    /\ pc = "ready"
    /\ call' = [fn |-> name, arg |-> arg]
    /\ ret' = result
    /\ UNCHANGED <<pc, self>>

Column ==
    \E key \in RepeatedColumnKeys, include_header \in BOOLEAN :
        Calls("column", [key |-> key, include_header |-> include_header],
              column(self.val, key, include_header))

Row ==
    \E key \in RepeatedRowKeys, include_index \in BOOLEAN :
        Calls("row", [key |-> key, include_index |-> include_index],
              row(self.val, key, include_index))

NextMutate ==
    \/ SetKeepIndex
    \/ SetSkipRows
    \/ SetSkipCols
    \/ SetDataFrame
    \/ HeaderCoordinates
    \/ IndexCoordinates
    \/ BodyCoordinates
    \/ TableCoordinates
    \/ FirstColumnCoordinates
    \/ Header
    \/ Index
    \/ Body
    \/ Table
    \/ FirstColumn
    \/ Column
    \/ Row

SpecMutate == InitMutate /\ [][NextMutate]_vars

----------------------------------------------------------------------------
(* Region formulas used to state the properties of a Spreadsheet *)
(* A configuration is [R, C, D_i, D_h, S_r, S_c, keep_index, keep_header],  *)
(* the depths being the numbers of levels of the two axes.                 *)

Levels(x) == IF x.multi THEN x.nlevels ELSE 1

HeaderRequested(kwargs) == [name |-> "keep_header", value |-> FALSE] \notin kwargs

\* the configuration a constructor call asks for
Requested(a) ==
    [R |-> Len(a.dataframe.index.labels), C |-> Len(a.dataframe.columns.labels),
     D_i |-> Levels(a.dataframe.index), D_h |-> Levels(a.dataframe.columns),
     S_r |-> a.skip_rows, S_c |-> a.skip_columns,
     keep_index |-> a.keep_index, keep_header |-> HeaderRequested(a.kwargs)]

\* the configuration of a constructed object, which always keeps its header
Current(s) ==
    [R |-> Len(s.df.index.labels), C |-> Len(s.df.columns.labels),
     D_i |-> Levels(s.df.index), D_h |-> Levels(s.df.columns),
     S_r |-> s.skip_rows, S_c |-> s.skip_cols,
     keep_index |-> s.keep_index, keep_header |-> TRUE]

IndexColumns(cfg) == IF cfg.keep_index THEN cfg.D_i ELSE 0

HeaderRows(cfg) == IF cfg.keep_header THEN cfg.D_h ELSE 0

BodyRegion(cfg) ==
    LET left == IndexColumns(cfg) + cfg.S_c
        top  == HeaderRows(cfg) + cfg.S_r + 1
    IN  << <<left, top>>, <<left - 1 + cfg.C, top - 1 + cfg.R>> >>

HeaderRegion(cfg) ==
    << <<BodyRegion(cfg)[1][1], cfg.S_r + 1>>,
       <<BodyRegion(cfg)[2][1], cfg.S_r + cfg.D_h>> >>

IndexRegion(cfg) ==
    << <<cfg.S_c, BodyRegion(cfg)[1][2]>>,
       <<cfg.S_c + cfg.D_i - 1, BodyRegion(cfg)[2][2]>> >>

TableRegion(cfg) ==
    << <<IF cfg.keep_index THEN IndexRegion(cfg)[1][1] ELSE BodyRegion(cfg)[1][1],
         IF cfg.keep_header THEN HeaderRegion(cfg)[1][2] ELSE BodyRegion(cfg)[1][2]>>,
       BodyRegion(cfg)[2] >>

Constructed == call.fn = "Spreadsheet" /\ pc # "start"

ReadOf(name) == pc = "ready" /\ call.fn = name

\* a dataframe of 3 rows and 3 columns with flat index and header
ThreeByThree(s) ==
    /\ Current(s).R = 3
    /\ Current(s).C = 3
    /\ ~s.df.index.multi
    /\ ~s.df.columns.multi

----------------------------------------------------------------------------
(* Properties of the regions of a Spreadsheet, checked under Spec *)

\* C7: for every region descriptor of a Spreadsheet, cells_range is the first
\* cell of cells, a colon, and the last cell of cells; for a 3x3 dataset the
\* table range label is "A1:C4" with no index, "A1:D4" with keep_index,
\* "A2:C5" with skip_rows=1 and "B1:D4" with skip_columns=1.
C7_RangeMatchesCells ==
    /\ (/\ ReadOf("cells_range")
        /\ call.arg.element.coordinates[1][1] <= call.arg.element.coordinates[2][1]
        /\ call.arg.element.coordinates[1][2] <= call.arg.element.coordinates[2][2])
          => LET listed == cells(call.arg.element)
             IN  /\ ret.exc = ""
                 /\ listed.type = "tuple"
                 /\ Len(listed.val) > 0
                 /\ ret.val = listed.val[1] \o <<":">> \o listed.val[Len(listed.val)]
    /\ (ReadOf("table") /\ ThreeByThree(self.val))
          => /\ ret.type = "SpreadsheetElement"
             /\ element_cells_range(ret.val).exc = ""
             /\ LET label == element_cells_range(ret.val).val
                    s     == self.val
                IN  /\ (~s.keep_index /\ s.skip_rows = 0 /\ s.skip_cols = 0)
                          => label = <<"A", "1", ":", "C", "4">>
                    /\ (s.keep_index /\ s.skip_rows = 0 /\ s.skip_cols = 0)
                          => label = <<"A", "1", ":", "D", "4">>
                    /\ (~s.keep_index /\ s.skip_rows = 1 /\ s.skip_cols = 0)
                          => label = <<"A", "2", ":", "C", "5">>
                    /\ (~s.keep_index /\ s.skip_rows = 0 /\ s.skip_cols = 1)
                          => label = <<"B", "1", ":", "D", "4">>

\* C8: for every R, C, D_i (0 when the index is not kept), D_h (0 when the
\* header is not kept), S_r and S_c the body region has
\* top_left = (D_i + S_c, D_h + S_r + 1) and
\* bottom_right = (top_left.col - 1 + C, top_left.row - 1 + R).
C8_BodyRegion ==
    /\ Constructed
          => /\ self.type = "Spreadsheet"
             /\ body_coordinates(self.val).exc = ""
             /\ body_coordinates(self.val).val = BodyRegion(Requested(call.arg))
    /\ ReadOf("body_coordinates")
          => /\ ret.exc = ""
             /\ ret.val = BodyRegion(Current(self.val))

\* C9: for every combination of keep_index and keep_header the table region is
\* the bounding box of header, index and body: its left column is the index's
\* if the index is kept, else the body's; its top row is the header's if the
\* header is kept, else the body's; its bottom right is the body's. It is
\* defined when the index is not kept.
C9_TableRegion ==
    /\ Constructed
          => /\ self.type = "Spreadsheet"
             /\ table_coordinates(self.val).exc = ""
             /\ table_coordinates(self.val).val = TableRegion(Requested(call.arg))
    /\ ReadOf("table_coordinates")
          => /\ ret.exc = ""
             /\ ret.type = "list"
             /\ ret.val = TableRegion(Current(self.val))

\* C10: when the header is kept the header region has
\* top_left = (body.top_left.col, S_r + 1) and
\* bottom_right = (body.bottom_right.col, S_r + D_h); with keep_header false
\* the header accessor returns None and the body's first row is S_r + 1.
C10_HeaderRegion ==
    /\ (Constructed /\ HeaderRequested(call.arg.kwargs))
          => /\ self.type = "Spreadsheet"
             /\ header_coordinates(self.val).exc = ""
             /\ header_coordinates(self.val).val = HeaderRegion(Requested(call.arg))
    /\ (Constructed /\ ~HeaderRequested(call.arg.kwargs))
          => /\ self.type = "Spreadsheet"
             /\ header(self.val).type = "NoneType"
             /\ body_coordinates(self.val).exc = ""
             /\ body_coordinates(self.val).val[1][2] = call.arg.skip_rows + 1
    /\ ReadOf("header_coordinates")
          => /\ ret.exc = ""
             /\ ret.val = HeaderRegion(Current(self.val))

\* C11: when the index is kept the index region has
\* top_left = (S_c, body.top_left.row) and
\* bottom_right = (S_c + D_i - 1, body.bottom_right.row); when keep_index is
\* false both index and index_coordinates are None.
C11_IndexRegion ==
    /\ (ReadOf("index_coordinates") /\ self.val.keep_index)
          => LET s == self.val
                 b == body_coordinates(s)
             IN  /\ ret.exc = b.exc
                 /\ ret.exc = ""
                       => /\ ret.type = "list"
                          /\ ret.val = << <<s.skip_cols, b.val[1][2]>>,
                                          <<s.skip_cols + Levels(s.df.index) - 1,
                                            b.val[2][2]>> >>
                          /\ ret.val = IndexRegion(Current(s))
    /\ (ReadOf("index_coordinates") /\ ~self.val.keep_index)
          => (ret.exc = "" /\ ret.type = "NoneType")
    /\ (ReadOf("index") /\ ~self.val.keep_index)
          => (ret.exc = "" /\ ret.type = "NoneType")
    /\ (ReadOf("index") /\ self.val.keep_index /\ ret.exc = "")
          => /\ ret.type = "SpreadsheetElement"
             /\ ret.val.coordinates = IndexRegion(Current(self.val))

C11_Witness ==
    /\ ReadOf("index_coordinates")
    /\ self.val.keep_index
    /\ ThreeByThree(self.val)
    /\ self.val.skip_rows = 0
    /\ self.val.skip_cols = 0
    /\ ret.exc = ""
    /\ ret.type = "list"
    /\ ret.val = << <<0, 2>>, <<0, 4>> >>

Shift(pair, dc, dr) ==
    << <<pair[1][1] + dc, pair[1][2] + dr>>, <<pair[2][1] + dc, pair[2][2] + dr>> >>

\* the same outcome, a returned region being moved by dc columns and dr rows
Moved(before, after, dc, dr) ==
    /\ after.exc = before.exc
    /\ after.type = before.type
    /\ before.type = "list" => after.val = Shift(before.val, dc, dr)

CoordinateReads ==
    {"header_coordinates", "index_coordinates", "body_coordinates",
     "table_coordinates", "first_column_coordinates"}

Ordered(pair) == pair[1][1] <= pair[2][1] /\ pair[1][2] <= pair[2][2]

\* C13 as stated: every coordinate pair produced for header, index, body,
\* table and first column has top_left <= bottom_right in both dimensions,
\* for every dataset with row_count >= 0 and column_count >= 0.
C13_OrderedCorners ==
    (pc = "ready" /\ call.fn \in CoordinateReads /\ ret.type = "list")
       => Ordered(ret.val)

\* C13 as amended: every coordinate pair produced for header, index, body,
\* table and first column has top_left <= bottom_right in both dimensions,
\* for every dataset with row_count >= 1 and column_count >= 1.
C13_OrderedCornersNonEmpty ==
    (/\ pc = "ready"
     /\ call.fn \in CoordinateReads
     /\ ret.type = "list"
     /\ Current(self.val).R >= 1
     /\ Current(self.val).C >= 1)
       => Ordered(ret.val)

C13_Witness ==
    /\ ReadOf("body_coordinates")
    /\ Current(self.val).R = 1
    /\ Current(self.val).C = 1
    /\ ret.type = "list"
    /\ ret.val[1] = ret.val[2]

----------------------------------------------------------------------------
(* Selectors *)

Returned(fn) == pc = "returned" /\ call.fn = fn

FooA == <<Words[1], <<"A">>>>

FooBarFez == <<Words[1], Words[2], Words[3]>>

\* the call was made on a dataframe with this flat list of column labels
Labelled(labels) ==
    ~self.val.df.columns.multi /\ self.val.df.columns.labels = labels

RECURSIVE Flatten(_)
Flatten(lists) ==
    IF Len(lists) = 0 THEN <<>> ELSE Head(lists) \o Flatten(Tail(lists))

\* every integer from lo to hi, both included
Inclusive(lo, hi) == [k \in 1..(hi - lo + 1) |-> lo + k - 1]

\* C16: a string selector is split on commas and its bits are resolved in
\* order; a bit "lo:hi" gives every integer from resolved(lo) to resolved(hi),
\* both included, each end resolved as a single token is; against labels
\* ["Foo", "Bar", "Fez"] "Foo:Fez" and "Foo:C" give [0, 1, 2] and "Foo, Bar"
\* gives [0, 1].
C16_RangesInclusive ==
    Returned("_str_key_to_int") =>
        LET s        == self.val
            columns  == call.arg.columns
            str_key  == call.arg.str_key
            bits     == split(str_key, ",")
            ends(k)  == split(bits[k], ":")
            token(t) == _str_index_to_int(s, t, columns)
            resolve  == \A k \in 1..Len(bits) :
                            /\ Len(ends(k)) <= 2
                            /\ \A j \in 1..Len(ends(k)) : token(ends(k)[j]).exc = ""
            expansion(k) == IF Len(ends(k)) = 2
                            THEN Inclusive(token(ends(k)[1]).val,
                                           token(ends(k)[2]).val)
                            ELSE <<token(ends(k)[1]).val>>
        IN  /\ resolve => /\ ret.exc = ""
                          /\ ret.type = "list"
                          /\ ret.val = Flatten([k \in 1..Len(bits) |-> expansion(k)])
            /\ ~resolve => ret.exc # ""
            /\ (Labelled(FooBarFez) /\ columns
                   /\ str_key \in {join(<<Words[1], Words[3]>>, ":"),
                                   join(<<Words[1], <<"C">>>>, ":")})
                  => (ret.exc = "" /\ ret.val = <<0, 1, 2>>)
            /\ (Labelled(FooBarFez) /\ columns
                   /\ str_key = join(<<Words[1], <<" ">> \o Words[2]>>, ","))
                  => (ret.exc = "" /\ ret.val = <<0, 1>>)

C16_Witness ==
    /\ Returned("_str_key_to_int")
    /\ Labelled(FooBarFez)
    /\ call.arg.columns
    /\ call.arg.str_key = join(<<Words[1], <<"C">>>>, ":")
    /\ ret.exc = ""
    /\ ret.val = <<0, 1, 2>>

\* the label of the cell in column c (zero-based) and spreadsheet row r
CellLabel(c, r) == bijective_base26(c + 1) \o str(r)

\* the cells of column c from row top to row bottom
SingleColumn(c, top, bottom) ==
    [k \in 1..(bottom - top + 1) |-> CellLabel(c, top + k - 1)]

\* the cells of row r from column left to column right
SingleRow(r, left, right) ==
    [k \in 1..(right - left + 1) |-> CellLabel(left + k - 1, r)]

\* the indices a selector resolves to, in selector order
Resolved(s, key, columns, offset) ==
    key_to_int_index(s, _input_as_list(key, {}), columns, offset)

BodyColumns(s) == BodyRegion(Current(s))[1][1]..BodyRegion(Current(s))[2][1]

BodyRows(s) == BodyRegion(Current(s))[1][2]..BodyRegion(Current(s))[2][2]

AllIn(list, range_) == \A k \in 1..Len(list) : list[k] \in range_

\* the dataframe has at least one row and one column
Populated(s) == Current(s).R >= 1 /\ Current(s).C >= 1

\* C15: in a row selector the integer k resolves to spreadsheet row k + 1 and
\* a string token that parses as k resolves to row k, so row(k) and
\* row(str(k + 1)) return the same cells: the cells of row k + 1.
C15_RowIntegerOffset ==
    (Returned("row") /\ Populated(self.val) /\ call.arg.key.kind = "int"
        /\ call.arg.key.value + 1 \in BodyRows(self.val))
       => LET s       == self.val
              k       == call.arg.key.value
              by_text == row(s, StrKey(str(k + 1)), call.arg.include_index)
              left    == IF call.arg.include_index /\ s.keep_index
                         THEN s.skip_cols
                         ELSE BodyRegion(Current(s))[1][1]
          IN  /\ Resolved(s, IntKey(k), FALSE, 1) = Ok("list", <<k + 1>>)
              /\ Resolved(s, StrKey(str(k + 1)), FALSE, 1) = Ok("list", <<k + 1>>)
              /\ ret.exc = ""
              /\ ret.type = "list"
              /\ by_text.exc = ""
              /\ by_text.type = "list"
              /\ ret.val = by_text.val
              /\ ret.val = SingleRow(k + 1, left, BodyRegion(Current(s))[2][1])

\* C17: column(key, include_header) returns, for each resolved column index
\* in selector order, the cells of that column from the body's top row (or
\* from row S_r + 1 with include_header) down to the body's bottom row, the
\* lists concatenated in selector order, duplicates kept.
C17_ColumnCells ==
    (Returned("column") /\ Populated(self.val) /\ call.arg.key.kind # "dict")
       => LET s        == self.val
              resolved == Resolved(s, call.arg.key, TRUE, 0)
              top      == IF call.arg.include_header
                          THEN s.skip_rows + 1
                          ELSE BodyRegion(Current(s))[1][2]
              bottom   == BodyRegion(Current(s))[2][2]
          IN  (resolved.exc = "" /\ AllIn(resolved.val, BodyColumns(s)))
                 => /\ ret.exc = ""
                    /\ ret.type = "list"
                    /\ ret.val = Flatten([k \in 1..Len(resolved.val) |->
                                     SingleColumn(resolved.val[k], top, bottom)])

\* C18: row(key, include_index) returns, for each resolved row number in
\* selector order, the cells of that row from the body's left column (or from
\* column S_c with include_index and a kept index) to the body's right
\* column, concatenated in selector order; without a kept index
\* include_index makes no difference.
C18_RowCells ==
    (Returned("row") /\ Populated(self.val) /\ call.arg.key.kind # "dict")
       => LET s        == self.val
              resolved == Resolved(s, call.arg.key, FALSE, 1)
              left     == IF call.arg.include_index /\ s.keep_index
                          THEN s.skip_cols
                          ELSE BodyRegion(Current(s))[1][1]
              right    == BodyRegion(Current(s))[2][1]
              flipped  == row(s, call.arg.key, ~call.arg.include_index)
          IN  /\ (resolved.exc = "" /\ AllIn(resolved.val, BodyRows(s)))
                    => /\ ret.exc = ""
                       /\ ret.type = "list"
                       /\ ret.val = Flatten([k \in 1..Len(resolved.val) |->
                                        SingleRow(resolved.val[k], left, right)])
              /\ ~s.keep_index
                    => /\ ret.exc = flipped.exc
                       /\ ret.type = flipped.type
                       /\ ret.type = "list" => ret.val = flipped.val

\* C19: on a populated dataframe column() raises KeyError whenever a resolved
\* column index is greater than the body's rightmost column, and row()
\* whenever a resolved row number is greater than the body's bottom row.
C19_OutOfRangeRaisesKeyError ==
    /\ (Returned("column") /\ Populated(self.val) /\ call.arg.key.kind # "dict")
          => LET resolved == Resolved(self.val, call.arg.key, TRUE, 0)
             IN  (/\ resolved.exc = ""
                  /\ \E k \in 1..Len(resolved.val) :
                        resolved.val[k] > BodyRegion(Current(self.val))[2][1])
                    => ret.exc = "KeyError"
    /\ (Returned("row") /\ Populated(self.val) /\ call.arg.key.kind # "dict")
          => LET resolved == Resolved(self.val, call.arg.key, FALSE, 1)
             IN  (/\ resolved.exc = ""
                  /\ \E k \in 1..Len(resolved.val) :
                        resolved.val[k] > BodyRegion(Current(self.val))[2][2])
                    => ret.exc = "KeyError"

\* the bits of a selector, in the order they are resolved
RECURSIVE ElementBits(_)
ElementBits(elements) ==
    IF Len(elements) = 0 THEN <<>>
    ELSE (IF Head(elements).kind = "str"
          THEN split(Head(elements).value, ",") ELSE <<>>)
         \o ElementBits(Tail(elements))

Bits(key) == ElementBits(_input_as_list(key, {}).val)

ManyColons(bit) == Len(split(bit, ":")) > 2

SelectorCall ==
    /\ pc = "returned"
    /\ call.fn \in {"column", "row"}
    /\ call.arg.key.kind # "dict"

EmptyMultiIndex(s) == s.df.index.multi /\ Len(s.df.index.labels) = 0

\* C21: column() and row() reject a dict selector with TypeError, before
\* anything is resolved or read from the dataframe: the outcome is the same
\* TypeError on every Spreadsheet, also on one whose regions cannot be read.
C21_DictRejected ==
    (pc = "returned" /\ call.fn \in {"column", "row"}
        /\ call.arg.key.kind = "dict")
       => /\ ret.exc = "TypeError"
          /\ ret.type = "exception"
          /\ ret.val = <<call.arg.key>>

C21_Witness ==
    /\ Returned("column")
    /\ call.arg.key.kind = "dict"
    /\ EmptyMultiIndex(self.val)
    /\ ret.exc = "TypeError"

\* the text is a base-10 integer once surrounding spaces are stripped: an
\* optional sign followed by one or more digits
IsInteger(text) ==
    LET stripped  == strip(text)
        signed    == Len(stripped) > 0 /\ stripped[1] \in {"+", "-"}
        magnitude == IF signed THEN Tail(stripped) ELSE stripped
    IN  /\ Len(magnitude) > 0
        /\ \A k \in 1..Len(magnitude) :
              magnitude[k] \in {"0", "1", "2", "3", "4", "5", "6", "7", "8", "9"}

\* the tokens of a bit: the bit itself, or the ends of its range
Tokens(bit) == split(bit, ":")

Unparseable(bit) == \E j \in 1..Len(Tokens(bit)) : ~IsInteger(Tokens(bit)[j])

\* the first token of the bit, left to right, that is no integer
FirstUnparseable(bit) ==
    Tokens(bit)[CHOOSE j \in 1..Len(Tokens(bit)) :
                    /\ ~IsInteger(Tokens(bit)[j])
                    /\ \A i \in 1..(j - 1) : IsInteger(Tokens(bit)[i])]

\* C22: a row token that is no base-10 integer once stripped makes the
\* resolution of the token, and row(), fail with ValueError; the message of
\* the error raised for that token includes the stripped token.
C22_RowTokenNotInteger ==
    /\ (Returned("_str_index_to_int") /\ ~call.arg.columns
           /\ ~IsInteger(call.arg.single_item_str))
          => /\ ret.exc = "ValueError"
             /\ ret.val = <<strip(call.arg.single_item_str)>>
    /\ (Returned("row") /\ call.arg.key.kind # "dict")
          => LET bits == Bits(call.arg.key)
             IN  \A k \in 1..Len(bits) :
                    /\ Unparseable(bits[k]) => ret.exc = "ValueError"
                    /\ (/\ Unparseable(bits[k])
                        /\ ~ManyColons(bits[k])
                        /\ \A j \in 1..(k - 1) :
                              ~ManyColons(bits[j]) /\ ~Unparseable(bits[j]))
                          => ret.val = <<strip(FirstUnparseable(bits[k]))>>

C22_Witness ==
    /\ Returned("row")
    /\ call.arg.key.kind = "str"
    /\ Len(Bits(call.arg.key)) = 2
    /\ IsInteger(Bits(call.arg.key)[1])
    /\ Bits(call.arg.key)[2] = <<"x">>
    /\ ret.exc = "ValueError"
    /\ ret.val = << <<"x">> >>

\* C23: on a populated dataframe column() raises KeyError for a resolved
\* column index left of the body (a skipped column or an index column), and
\* row() for a resolved row number above the body (a skipped row or a header
\* row), every other resolved index being inside the body.
C23_LowerBoundChecked ==
    /\ (Returned("column") /\ Populated(self.val) /\ call.arg.key.kind # "dict")
          => LET resolved == Resolved(self.val, call.arg.key, TRUE, 0)
                 left     == BodyRegion(Current(self.val))[1][1]
             IN  (/\ resolved.exc = ""
                  /\ AllIn(resolved.val, 0..BodyRegion(Current(self.val))[2][1])
                  /\ \E k \in 1..Len(resolved.val) : resolved.val[k] < left)
                    => ret.exc = "KeyError"
    /\ (Returned("row") /\ Populated(self.val) /\ call.arg.key.kind # "dict")
          => LET resolved == Resolved(self.val, call.arg.key, FALSE, 1)
                 top      == BodyRegion(Current(self.val))[1][2]
             IN  (/\ resolved.exc = ""
                  /\ AllIn(resolved.val, 1..BodyRegion(Current(self.val))[2][2])
                  /\ \E k \in 1..Len(resolved.val) : resolved.val[k] < top)
                    => ret.exc = "KeyError"

\* C24: column() and row() resolve the whole selector before any bound check
\* or cell enumeration: when an element does not resolve, the call fails with
\* the error of that resolution whatever stands before it, so [99, "A:B:C"]
\* fails with the ValueError of the range syntax; a failing call returns an
\* exception and no list of cells.
C24_ResolvedBeforeChecked ==
    SelectorCall =>
        LET resolved == Resolved(self.val, call.arg.key, call.fn = "column",
                                 IF call.fn = "column" THEN 0 ELSE 1)
        IN  /\ resolved.exc # "" => /\ ret.exc = resolved.exc
                                    /\ ret.type = "exception"
                                    /\ ret.val = resolved.val
            /\ (/\ call.arg.key.kind \in {"list", "tuple"}
                /\ Len(call.arg.key.value) = 2
                /\ call.arg.key.value[1] = IntKey(FarIndex)
                /\ call.arg.key.value[2].kind = "str"
                /\ ManyColons(call.arg.key.value[2].value))
                  => ret = Raise("ValueError")
            /\ ret.exc # "" => ret.type = "exception"
            /\ ret.exc = "" => ret.type = "list"

C24_Witness ==
    /\ Returned("column")
    /\ ~EmptyMultiIndex(self.val)
    /\ call.arg.key = ListKey(<<IntKey(FarIndex), StrKey(ColumnManyColons)>>)
    /\ ret = Raise("ValueError")

----------------------------------------------------------------------------
(* Reads and calls after reassignments *)

FirstColumnRegion(cfg) ==
    << BodyRegion(cfg)[1], <<BodyRegion(cfg)[1][1], BodyRegion(cfg)[2][2]>> >>

\* the region a property is about, for the given configuration
RegionOf(name, cfg) ==
    IF name \in {"header", "header_coordinates"} THEN HeaderRegion(cfg)
    ELSE IF name \in {"index", "index_coordinates"} THEN IndexRegion(cfg)
    ELSE IF name \in {"body", "body_coordinates"} THEN BodyRegion(cfg)
    ELSE IF name \in {"table", "table_coordinates"} THEN TableRegion(cfg)
    ELSE FirstColumnRegion(cfg)

ElementReads == {"header", "index", "body", "table", "first_column"}

\* C25: whatever was assigned to skip_rows, skip_cols, keep_index and the
\* dataframe before, a read of header, index, body, table or first_column
\* (and of their coordinates) gives the region of the formula for the values
\* the Spreadsheet has now; the index is None when it is not kept.
C25_RegionsNeverStale ==
    (/\ pc = "ready"
     /\ call.fn \in ElementReads \cup CoordinateReads
     /\ ~EmptyMultiIndex(self.val))
       => IF call.fn \in {"index", "index_coordinates"} /\ ~self.val.keep_index
          THEN ret.exc = "" /\ ret.type = "NoneType"
          ELSE /\ ret.exc = ""
               /\ call.fn \notin ElementReads
                     => /\ ret.type = "list"
                        /\ ret.val = RegionOf(call.fn, Current(self.val))
               /\ call.fn \in ElementReads
                     => /\ ret.type = "SpreadsheetElement"
                        /\ ret.val.coordinates = RegionOf(call.fn, Current(self.val))

BodyCells(s) == {CellLabel(c, r) : c \in BodyColumns(s), r \in BodyRows(s)}

\* C26: without include_header every cell column(key) returns is a cell of
\* the body, for every form of key and every keep_index and skip_columns, and
\* a key that is the k-th column label resolves to the body's k-th column and
\* returns the cells of that column.
C26_ColumnCellsInBody ==
    (Returned("column") /\ Populated(self.val) /\ ~call.arg.include_header)
       => LET s      == self.val
              region == BodyRegion(Current(s))
              labels == s.df.columns.labels
              key    == call.arg.key
          IN  /\ ret.exc = "" => /\ ret.type = "list"
                                 /\ AllIn(ret.val, BodyCells(s))
              /\ \A k \in 1..Len(labels) :
                    (/\ ~s.df.columns.multi
                     /\ key.kind = "str"
                     /\ strip(key.value) = labels[k]
                     /\ \A j \in 1..(k - 1) : labels[j] # labels[k])
                       => /\ Resolved(s, key, TRUE, 0) = Ok("list", <<region[1][1] + k - 1>>)
                          /\ ret = Ok("list", SingleColumn(region[1][1] + k - 1,
                                                           region[1][2], region[2][2]))

\* C28: every element of a list or tuple selector passed to column() or
\* row() contributes its resolved indices or makes the call fail; an element
\* that is neither a string nor an integer resolves to nothing, so a call
\* whose selector holds one fails.
C28_NoElementIgnored ==
    (SelectorCall /\ call.arg.key.kind \in {"list", "tuple"})
       => \A k \in 1..Len(call.arg.key.value) :
             call.arg.key.value[k].kind \notin {"str", "int"} => ret.exc # ""

\* the bit is a range whose ends resolve, the lower end above the upper one
Reversed(s, bit, columns) ==
    LET ends == split(bit, ":")
    IN  /\ Len(ends) = 2
        /\ _str_index_to_int(s, ends[1], columns).exc = ""
        /\ _str_index_to_int(s, ends[2], columns).exc = ""
        /\ _str_index_to_int(s, ends[1], columns).val
              > _str_index_to_int(s, ends[2], columns).val

\* C29: a range "lo:hi" whose resolved lower end is greater than its resolved
\* upper end ("C:A", "3:1") resolves to no index and raises nothing: the
\* selector resolves to what its other bits resolve to, and column() and row()
\* called with such a range alone return an empty list of cells.
C29_ReversedRangeEmpty ==
    /\ Returned("_str_key_to_int") =>
          LET s        == self.val
              columns  == call.arg.columns
              bits     == split(call.arg.str_key, ",")
              others   == SelectSeq(bits, LAMBDA bit : ~Reversed(s, bit, columns))
              rest     == bits_to_int(s, others, columns)
          IN  /\ (Len(others) = 0) => ret = Ok("list", <<>>)
              /\ (Len(others) > 0 /\ Len(others) < Len(bits))
                    => /\ ret.exc = rest.exc
                       /\ ret.type = rest.type
                       /\ ret.exc = "" => ret.val = rest.val
    /\ (SelectorCall /\ ~EmptyMultiIndex(self.val)
           /\ call.arg.key.kind = "str"
           /\ Len(split(call.arg.key.value, ",")) = 1
           /\ Reversed(self.val, call.arg.key.value, call.fn = "column"))
          => ret = Ok("list", <<>>)

\* "C:A" resolved against labels that name neither end: no index, no error
C29_Witness ==
    /\ Returned("_str_key_to_int")
    /\ call.arg.columns
    /\ call.arg.str_key = join(<<<<"C">>, <<"A">>>>, ":")
    /\ Reversed(self.val, call.arg.str_key, TRUE)
    /\ ret = Ok("list", <<>>)

\* the cells of a coordinate pair, as (column, row)
CellsOf(pair) ==
    {<<c, r>> : c \in pair[1][1]..pair[2][1], r \in pair[1][2]..pair[2][2]}

\* the header spans the body's columns in the D_h rows directly above it and
\* shares no cell with it
HeaderAboveBody(s) ==
    LET h == header_coordinates(s)
        b == body_coordinates(s)
    IN  /\ h.exc = "" /\ h.type = "list"
        /\ b.exc = "" /\ b.type = "list"
        /\ h.val[1][1] = b.val[1][1]
        /\ h.val[2][1] = b.val[2][1]
        /\ h.val[1][2] = b.val[1][2] - Levels(s.df.columns)
        /\ h.val[2][2] = b.val[1][2] - 1
        /\ CellsOf(h.val) \cap CellsOf(b.val) = {}

\* a kept index spans the body's rows in the D_i columns directly left of it
\* and shares no cell with the body or the header
IndexLeftOfBody(s) ==
    LET h == header_coordinates(s)
        b == body_coordinates(s)
        i == index_coordinates(s)
    IN  /\ i.exc = ""
        /\ s.keep_index
              => /\ i.type = "list"
                 /\ i.val[1][2] = b.val[1][2]
                 /\ i.val[2][2] = b.val[2][2]
                 /\ i.val[1][1] = b.val[1][1] - Levels(s.df.index)
                 /\ i.val[2][1] = b.val[1][1] - 1
                 /\ CellsOf(i.val) \cap CellsOf(b.val) = {}
                 /\ CellsOf(i.val) \cap CellsOf(h.val) = {}

\* every cell of header, body and kept index is a cell of the table
InsideTable(s) ==
    LET t == table_coordinates(s)
    IN  /\ t.exc = "" /\ t.type = "list"
        /\ CellsOf(header_coordinates(s).val) \subseteq CellsOf(t.val)
        /\ CellsOf(body_coordinates(s).val) \subseteq CellsOf(t.val)
        /\ s.keep_index => CellsOf(index_coordinates(s).val) \subseteq CellsOf(t.val)

\* C27: for every configuration header, index and body are pairwise disjoint
\* and each of their cells is a cell of the table; the header spans exactly
\* the body's columns in the D_h rows directly above the body and the index
\* exactly the body's rows in the D_i columns directly left of it.
C27_RegionsTileTable ==
    (pc = "ready" /\ Populated(self.val) /\ indexes_depth(self.val).exc = "")
       => /\ HeaderAboveBody(self.val)
          /\ IndexLeftOfBody(self.val)
          /\ InsideTable(self.val)

====
